---- MODULE Spec2Model ----
(***************************************************************************)
(* Model of the custom_app_api customisations: the employee permission     *)
(* filter, the point wise attendance report, the farmer visit endpoint and *)
(* the route after_insert hook.                                            *)
(*                                                                         *)
(* Strings whose characters the code inspects or orders (zone, point and   *)
(* route names) are sequences of character codes; identifiers that are     *)
(* only compared for equality are TLA+ strings.  None is the string        *)
(* "None".                                                                 *)
(***************************************************************************)
EXTENDS Integers, Sequences, FiniteSets, TLC

VARIABLES
    \* ---- Employee store read by the permission filter
    reports_to,         \* Employee.reports_to : name -> name or None
    user_id,            \* Employee.user_id    : name -> user or None
    \* ---- get_permission_query_conditions, one call in progress
    perm_pc,            \* "idle" | "query" | "done"
    perm_user,          \* the argument user
    employee,           \* frappe.db.get_value(...): name or None
    cte_work,           \* emp_hierarchy rows not yet joined (sequence)
    cte_rows,           \* emp_hierarchy rows produced so far (sequence)
    final_condition,    \* the returned condition: a sequence of conjuncts
    \* ---- Point / Employee / Attendance store read by the report
    point_zone,         \* Point.zone_name : point -> Zone id or None
    attendance,         \* point -> status -> number of the point's active
                        \* employees with a submitted Attendance row of that
                        \* status on filters.date
    unmarked,           \* point -> number of the point's active employees
                        \* with no submitted Attendance row on filters.date
    \* ---- execute(filters), the last call
    rep_pc,             \* "idle" | "done"
    rep_filters,        \* the filters of the call: [zones, points]
    rep_points,         \* the rows of the grouping query, in the order read
    rep_out,            \* what execute returned (or raised)
    \* ---- document store written by the route hook and the visit endpoint
    routes,             \* the inserted "route" documents, in insertion order
    job_openings,       \* the inserted Job Opening documents
    error_log,          \* the titles frappe.log_error was called with
    hook_calls,         \* per after_insert call: what job_opening.insert() did
    farmers,            \* the Farmer Details documents
    visits,             \* the Visit Tracker documents
    visit_pc,           \* "idle" | "done": a create_farmer_visit call was made
    visit_before,       \* the farmers and visits stored when it was made
    visit_req,          \* the last create_farmer_visit request
    visit_resp,         \* and what the caller got back
    visit_env,          \* how the store answered that request's writes
    \* ---- Village BDE Mapping store and the last get_assigned_villages call
    village_mappings,   \* the Village BDE Mapping documents, in the order
                        \* frappe.get_all returns them, each with the
                        \* villages of its Village Map rows
    villages_pc,        \* "idle" | "done"
    villages_req,       \* the headers of the call
    villages_resp       \* what the caller got back

permVars == <<reports_to, user_id, perm_pc, perm_user, employee,
              cte_work, cte_rows, final_condition>>

repVars == <<point_zone, attendance, unmarked, rep_pc, rep_filters, rep_points, rep_out>>

routeVars == <<routes, job_openings, error_log, hook_calls>>

visitVars == <<farmers, visits, visit_pc, visit_before, visit_req, visit_resp, visit_env>>

villageVars == <<village_mappings, villages_pc, villages_req, villages_resp>>

vars == <<permVars, repVars, routeVars, visitVars, villageVars>>

None == "None"

(***************************************************************************)
(* Generic helpers                                                         *)
(***************************************************************************)
Range(s) == {s[i] : i \in DOMAIN s}

\* All orderings of a finite set, as sequences without repetition.
Orderings(S) ==
    {s \in [1..Cardinality(S) -> S] : \A i, j \in DOMAIN s : i # j => s[i] # s[j]}

RemoveAt(s, i) == SubSeq(s, 1, i - 1) \o SubSeq(s, i + 1, Len(s))

(***************************************************************************)
(* The components a specification does not exercise stay in these states.  *)
(***************************************************************************)
RepIdle ==
    /\ point_zone = <<>>
    /\ attendance = <<>>
    /\ unmarked = <<>>
    /\ rep_pc = "idle"
    /\ rep_filters = <<>>
    /\ rep_points = <<>>
    /\ rep_out = <<>>

RouteIdle ==
    /\ routes = <<>>
    /\ job_openings = {}
    /\ error_log = <<>>
    /\ hook_calls = <<>>

VisitIdle ==
    /\ farmers = {}
    /\ visits = {}
    /\ visit_pc = "idle"
    /\ visit_before = <<>>
    /\ visit_req = <<>>
    /\ visit_resp = <<>>
    /\ visit_env = <<>>

VillageIdle ==
    /\ village_mappings = <<>>
    /\ villages_pc = "idle"
    /\ villages_req = <<>>
    /\ villages_resp = <<>>

PermIdle ==
    /\ reports_to = <<>>
    /\ user_id = <<>>
    /\ perm_pc = "idle"
    /\ perm_user = None
    /\ employee = None
    /\ cte_work = <<>>
    /\ cte_rows = <<>>
    /\ final_condition = <<>>

(***************************************************************************)
(* Permission filter: permission_query_conditions/employee.py              *)
(***************************************************************************)
MaxEmployees == 4

EmployeeNames == <<"EMP-1", "EMP-2", "EMP-3", "EMP-4", "EMP-5", "EMP-6">>

Employees == {EmployeeNames[i] : i \in 1..MaxEmployees}

Users == {"Administrator", "manager", "alice", "bob"}

\* frappe.get_roles(user): "manager" is the System Manager of the site.
get_roles(user) ==
    IF user = "manager" THEN {"System Manager", "Employee"}
    ELSE IF user = "Administrator" THEN {"Administrator"}
    ELSE {"Employee"}

\* The reports_to chain of e, upward: e's manager, the manager's manager, ...
RECURSIVE Managers(_, _, _)
Managers(rt, e, fuel) ==
    IF fuel = 0 \/ rt[e] = None THEN {}
    ELSE {rt[e]} \cup Managers(rt, rt[e], fuel - 1)

\* The data model's invariant: reports_to is a forest.
Acyclic(rt) == \A e \in Employees : e \notin Managers(rt, e, MaxEmployees)

\* conditions = ["status = 'Active'"]
BaseConditions == <<[field |-> "status", op |-> "=", values |-> <<"Active">>]>>

\* The role test that skips the hierarchy (line 17).
IsAdministrative(user) ==
    "System Manager" \in get_roles(user) \/ user = "Administrator"

\* frappe.db.get_value("Employee", {"user_id": user}, "name")
EmployeeOfUser(uid, user) ==
    IF \E e \in Employees : uid[e] = user
    THEN CHOOSE e \in Employees : uid[e] = user
    ELSE None

\* A fail-closed variant: a user without an Employee record sees no row.
NoEmployeeConditionsClosed(conditions) ==
    Append(conditions, [field |-> "name", op |-> "in", values |-> <<>>])

\* "if not employee: return ' and '.join(conditions)"
NoEmployeeConditions(conditions) == conditions

\* The rows of `tabEmployee` joined to one emp_hierarchy row:
\* e.reports_to = eh.name (the anchor uses the employee's own name).
JoinedRows(rt, name) == {e \in Employees : rt[e] = name}

\* A variant that forgets to include the employee's own record.
SubordinateNamesWithoutSelf(emp, rows) == rows

\* subordinate_names = [employee]; subordinate_names.extend(rows)
SubordinateNames(emp, rows) == <<emp>> \o rows

\* conditions.append("name in ('a','b',...)") when the list is not empty
WithNames(conditions, names) ==
    IF names # <<>>
    THEN Append(conditions, [field |-> "name", op |-> "in", values |-> names])
    ELSE conditions

PermInit ==
    /\ reports_to \in {rt \in [Employees -> Employees \cup {None}] : Acyclic(rt)}
    /\ user_id \in {u \in [Employees -> {"alice", "manager", None}] :
                       \A e1, e2 \in Employees :
                           (e1 # e2 /\ u[e1] # None) => u[e1] # u[e2]}
    /\ perm_pc = "idle"
    /\ perm_user = None
    /\ employee = None
    /\ cte_work = <<>>
    /\ cte_rows = <<>>
    /\ final_condition = <<>>
    /\ RepIdle
    /\ RouteIdle
    /\ VisitIdle
    /\ VillageIdle

\* Lines 12-43: the role check, the employee lookup and the anchor member
\* of the recursive query.
PermCall(user) ==
    /\ perm_pc \in {"idle", "done"}
    /\ perm_user' = user
    /\ IF IsAdministrative(user)
       THEN /\ employee' = None
            /\ final_condition' = BaseConditions
            /\ perm_pc' = "done"
            /\ cte_work' = <<>>
            /\ cte_rows' = <<>>
       ELSE LET emp == EmployeeOfUser(user_id, user) IN
            /\ employee' = emp
            /\ IF emp = None
               THEN /\ final_condition' = NoEmployeeConditions(BaseConditions)
                    /\ perm_pc' = "done"
                    /\ cte_work' = <<>>
                    /\ cte_rows' = <<>>
               ELSE /\ \E anchor \in Orderings(JoinedRows(reports_to, emp)) :
                          /\ cte_work' = anchor
                          /\ cte_rows' = anchor
                    /\ final_condition' = <<>>
                    /\ perm_pc' = "query"
    /\ UNCHANGED <<reports_to, user_id>>
    /\ UNCHANGED <<repVars, routeVars, visitVars, villageVars>>

\* The recursive member: one emp_hierarchy row, any of those pending, is
\* joined to tabEmployee; UNION ALL keeps every row produced.
PermJoin ==
    /\ perm_pc = "query"
    /\ \E i \in DOMAIN cte_work :
          \E kids \in Orderings(JoinedRows(reports_to, cte_work[i])) :
              /\ cte_work' = RemoveAt(cte_work, i) \o kids
              /\ cte_rows' = cte_rows \o kids
    /\ UNCHANGED <<reports_to, user_id, perm_pc, perm_user, employee, final_condition>>
    /\ UNCHANGED <<repVars, routeVars, visitVars, villageVars>>

\* Lines 44-58: the query has no row left to join.
PermReturn ==
    /\ perm_pc = "query"
    /\ cte_work = <<>>
    /\ final_condition' = WithNames(BaseConditions, SubordinateNames(employee, cte_rows))
    /\ perm_pc' = "done"
    /\ UNCHANGED <<reports_to, user_id, perm_user, employee, cte_work, cte_rows>>
    /\ UNCHANGED <<repVars, routeVars, visitVars, villageVars>>

PermNext ==
    \/ \E user \in Users : PermCall(user)
    \/ PermJoin
    \/ PermReturn

SpecPerm == PermInit /\ [][PermNext]_vars

(***************************************************************************)
(* Properties of the permission filter                                     *)
(***************************************************************************)
\* Every employee whose reports_to chain reaches emp.
Subordinates(emp) ==
    {e \in Employees : emp \in Managers(reports_to, e, MaxEmployees)}

NoDuplicates(s) == \A i, j \in DOMAIN s : i # j => s[i] # s[j]

HasEmployeeRecord(user) == \E e \in Employees : user_id[e] = user

\* C1: for a non-administrative user with an Employee record E, the returned
\* condition is status = 'Active' and name in (...), where the listed names
\* are exactly E and every direct or indirect subordinate of E, none twice,
\* whatever order the recursive query produced its rows in.
C1_VisibleIsSelfAndSubordinates ==
    (perm_pc = "done" /\ ~IsAdministrative(perm_user) /\ HasEmployeeRecord(perm_user))
    => /\ Len(final_condition) = 2
       /\ final_condition[1] = [field |-> "status", op |-> "=", values |-> <<"Active">>]
       /\ final_condition[2].field = "name"
       /\ final_condition[2].op = "in"
       /\ user_id[employee] = perm_user
       /\ Range(final_condition[2].values) = {employee} \cup Subordinates(employee)
       /\ NoDuplicates(final_condition[2].values)

\* C1 witness: a finished call for an employee who has an indirect subordinate
\* and at least two direct ones, the rows not produced in name order.
C1_Witness ==
    /\ perm_pc = "done"
    /\ perm_user = "alice"
    /\ employee # None
    /\ Cardinality(JoinedRows(reports_to, employee)) >= 2
    /\ \E e \in Subordinates(employee) : reports_to[e] # employee
    /\ Len(final_condition) = 2
    /\ Len(final_condition[2].values) = 4
    /\ final_condition[2].values[2] = "EMP-3"

\* C2: a user with no Employee record receives only the base condition
\* status = 'Active', with no conjunct on the employee name.
C2_NoEmployeeIsUnrestricted ==
    (perm_pc = "done" /\ ~HasEmployeeRecord(perm_user))
    => /\ final_condition = <<[field |-> "status", op |-> "=", values |-> <<"Active">>]>>
       /\ \A i \in DOMAIN final_condition : final_condition[i].field # "name"

\* C2 witness: a finished call of a non-administrative user without an
\* Employee record, in a store where other users do have one.
C2_Witness ==
    /\ perm_pc = "done"
    /\ perm_user = "bob"
    /\ ~IsAdministrative(perm_user)
    /\ ~HasEmployeeRecord(perm_user)
    /\ HasEmployeeRecord("alice")
    /\ employee = None

(***************************************************************************)
(* Character strings (sequences of code points)                            *)
(***************************************************************************)
EmptyStr == <<>>

\* None where a character string is expected.
NoneStr == <<-1>>

\* Python truthiness of a string or None.
Truthy(x) == x # NoneStr /\ x # EmptyStr

\* Python's < on str: code point by code point, a proper prefix first.
RECURSIVE StrLess(_, _)
StrLess(a, b) ==
    IF b = <<>> THEN FALSE
    ELSE IF a = <<>> THEN TRUE
    ELSE IF Head(a) # Head(b) THEN Head(a) < Head(b)
    ELSE StrLess(Tail(a), Tail(b))

SuffixTotal == <<32, 84, 111, 116, 97, 108>>                       \* " Total"

GrandTotalName == <<71, 114, 97, 110, 100, 32, 84, 111, 116, 97, 108>>  \* "Grand Total"

(***************************************************************************)
(* Point wise attendance report: point_wise_attendance.py                  *)
(*                                                                         *)
(* The store holds the active Points, the Zones and, per point, the active *)
(* employees of the resolved companies: how many have a submitted          *)
(* Attendance row of each status on filters.date and how many have none    *)
(* (draft, cancelled and other-date rows are dropped by the query's        *)
(* filters, lines 329-333).  attendance_percentage is kept as the exact    *)
(* fraction whose float the code computes.                                 *)
(***************************************************************************)
MaxAttendance == 2

PointP1 == <<80, 49>>            \* "P1"

PointP10 == <<80, 49, 48>>       \* "P10"

PointP2 == <<80, 50>>            \* "P2"

Points == {PointP1, PointP10, PointP2}

ZoneIds == {"ZN-0001", "ZN-0002"}

\* zone_map = {zone.name: zone.zone_name}: "West" and "East".
zone_map ==
    [z \in ZoneIds |-> IF z = "ZN-0001" THEN <<87, 101, 115, 116>>
                                        ELSE <<69, 97, 115, 116>>]

Statuses == {"Present", "Work From Home", "Absent", "On Leave"}

Cells == Points \X Statuses

\* All ways to have at most n submitted Attendance rows in the store.
RECURSIVE AttendanceStores(_)
AttendanceStores(n) ==
    IF n = 0 THEN {[c \in Cells |-> 0]}
    ELSE LET smaller == AttendanceStores(n - 1) IN
         smaller \cup {[b EXCEPT ![c] = @ + 1] : b \in smaller, c \in Cells}

RECURSIVE SumOver(_, _)
SumOver(S, f) ==
    IF S = {} THEN 0
    ELSE LET x == CHOOSE y \in S : TRUE IN f[x] + SumOver(S \ {x}, f)

RECURSIVE SumSeq(_, _)
\* sum(row[field] for row in rows), field given as a selector
SumSeq(rows, field) ==
    IF rows = <<>> THEN 0 ELSE Head(rows)[field] + SumSeq(Tail(rows), field)

\* count(*) of active employees grouped by custom_point (lines 291-299)
Headcount(att, unm, p) == SumOver({p} \X Statuses, att) + unm[p]

RECURSIVE Gcd(_, _)
Gcd(a, b) == IF b = 0 THEN a ELSE Gcd(b, a % b)

ZeroPct == [ok |-> TRUE, num |-> 0, den |-> 1]

\* Python's a / b with int operands: ZeroDivisionError for b = 0.
PyDiv(a, b) ==
    IF b = 0 THEN [ok |-> FALSE, num |-> 0, den |-> 0]
    ELSE IF a = 0 THEN ZeroPct
    ELSE LET g == Gcd(a, b) IN [ok |-> TRUE, num |-> a \div g, den |-> b \div g]

\* A variant that divides without looking at the denominator.
PercentageUnguarded(present, marked) == PyDiv(present * 100, marked)

\* (present / total_marked * 100) if total_marked else 0
Percentage(present, marked) ==
    IF marked # 0 THEN PyDiv(present * 100, marked) ELSE ZeroPct

\* allowed_points (lines 255-265): the active points, of the zones asked for
\* when filters.zones is given (an empty or missing filter is no filter).
AllowedPoints(pz, zones) ==
    {p \in Points : zones = {} \/ pz[p] \in zones}

\* point_zone_map = {p.name: zone_map.get(p.zone_name, "")}
point_zone_map(pz, allowed) ==
    [p \in allowed |-> IF pz[p] \in ZoneIds THEN zone_map[pz[p]] ELSE EmptyStr]

\* The custom_point "in" list of the grouping query (lines 278-289).
GroupingPoints(allowed, pts) ==
    IF pts # {} THEN {p \in pts : p \in allowed} ELSE allowed

\* The rows of the grouping query (lines 291-299), as a set.  With an empty
\* "in" list the query matches the employees that have no point: one group
\* whose point is empty.
GroupRows(att, unm, inlist) ==
    IF inlist = {} THEN {[point |-> EmptyStr, total_employees |-> 1]}
    ELSE {[point |-> p, total_employees |-> Headcount(att, unm, p)] :
             p \in {q \in inlist : Headcount(att, unm, q) > 0}}

\* The rows of the per-point Attendance query (lines 323-335), as a set:
\* one row per status that occurs.
AttendanceCountRows(att, p) ==
    {[status |-> st, count |-> att[<<p, st>>]] :
        st \in {t \in Statuses : att[<<p, t>>] > 0}}

\* Every way the per-point Attendance queries can order their rows.
RECURSIVE AttendanceCountOrders(_, _)
AttendanceCountOrders(att, ps) ==
    IF ps = {} THEN {<<>>}
    ELSE LET p == CHOOSE q \in ps : TRUE IN
         {(p :> o) @@ f : o \in Orderings(AttendanceCountRows(att, p)),
                          f \in AttendanceCountOrders(att, ps \ {p})}

\* for count_data in attendance_counts: ... (lines 337-347)
RECURSIVE ProcessCounts(_, _)
ProcessCounts(counts, acc) ==
    IF counts = <<>> THEN acc
    ELSE LET count_data == Head(counts) IN
         ProcessCounts(Tail(counts),
            IF count_data.status \in {"Present", "Work From Home"}
            THEN [acc EXCEPT !.present = count_data.count]
            ELSE IF count_data.status = "Absent"
            THEN [acc EXCEPT !.absent = count_data.count]
            ELSE IF count_data.status = "On Leave"
            THEN [acc EXCEPT !.on_leave = count_data.count]
            ELSE acc)

\* row_data of one point (lines 308-361)
RowData(point_data, zone, counts) ==
    LET c == ProcessCounts(counts, [present |-> 0, absent |-> 0, on_leave |-> 0])
        total_marked == c.present + c.absent + c.on_leave
    IN [zone |-> zone,
        point |-> point_data.point,
        total_employees |-> point_data.total_employees,
        present |-> c.present,
        absent |-> c.absent,
        on_leave |-> c.on_leave,
        attendance_percentage |-> Percentage(c.present, total_marked)]

\* zone_wise_data[zone] += row (lines 365-376)
Aggregate(zone_wise_data, row) ==
    LET old == IF row.zone \in DOMAIN zone_wise_data
               THEN zone_wise_data[row.zone]
               ELSE [total_employees |-> 0, present |-> 0, absent |-> 0, on_leave |-> 0]
        new == [total_employees |-> old.total_employees + row.total_employees,
                present |-> old.present + row.present,
                absent |-> old.absent + row.absent,
                on_leave |-> old.on_leave + row.on_leave]
    IN [z \in DOMAIN zone_wise_data \cup {row.zone} |->
           IF z = row.zone THEN new ELSE zone_wise_data[z]]

\* for point_data in points: ... (lines 301-376); acc is [data, zone_wise_data]
RECURSIVE PointsLoop(_, _, _, _)
PointsLoop(points, pzm, counts, acc) ==
    IF points = <<>> THEN acc
    ELSE LET point_data == Head(points) IN
         IF ~Truthy(point_data.point)
         THEN PointsLoop(Tail(points), pzm, counts, acc)
         ELSE LET zone == IF point_data.point \in DOMAIN pzm
                          THEN pzm[point_data.point] ELSE EmptyStr
                  row == RowData(point_data, zone, counts[point_data.point])
              IN PointsLoop(Tail(points), pzm, counts,
                            [data |-> Append(acc.data, row),
                             zone_wise_data |-> Aggregate(acc.zone_wise_data, row)])


\* A sort key that ignores the zone.
KeyLessByPointOnly(r1, r2) == StrLess(r1.point, r2.point)

\* The order of the sort key (x["zone"] or "", x["point"] or "") (line 379);
\* zone and point are never None here.
KeyLess(r1, r2) ==
    \/ StrLess(r1.zone, r2.zone)
    \/ r1.zone = r2.zone /\ StrLess(r1.point, r2.point)

\* Insert row behind the rows that are not greater: the sort is stable.
RECURSIVE InsertSorted(_, _)
InsertSorted(sorted, row) ==
    IF sorted = <<>> THEN <<row>>
    ELSE IF KeyLess(row, Head(sorted)) THEN <<row>> \o sorted
    ELSE <<Head(sorted)>> \o InsertSorted(Tail(sorted), row)

\* data.sort(key=...) (line 379)
RECURSIVE SortData(_)
SortData(data) ==
    IF data = <<>> THEN <<>>
    ELSE InsertSorted(SortData(SubSeq(data, 1, Len(data) - 1)), data[Len(data)])

\* grand_total (lines 382-387)
GrandTotal(data) ==
    [total_employees |-> SumSeq(data, "total_employees"),
     present |-> SumSeq(data, "present"),
     absent |-> SumSeq(data, "absent"),
     on_leave |-> SumSeq(data, "on_leave")]

\* A total row: of a zone (lines 396-406, 412-422) or the grand one (425-434)
TotalRow(name, total) ==
    [zone |-> name,
     point |-> EmptyStr,
     total_employees |-> total.total_employees,
     present |-> total.present,
     absent |-> total.absent,
     on_leave |-> total.on_leave,
     attendance_percentage |->
         Percentage(total.present, total.present + total.absent + total.on_leave)]

\* A variant whose zone row repeats the totals of the whole report.
ZoneTotalRowOfAllZones(current_zone, zone_wise_data) ==
    TotalRow(current_zone \o SuffixTotal,
             [f \in {"total_employees", "present", "absent", "on_leave"} |->
                 SumOver(DOMAIN zone_wise_data, [z \in DOMAIN zone_wise_data |-> zone_wise_data[z][f]])])

\* zone_total = zone_wise_data[current_zone]; final_data.append({...})
ZoneTotalRow(current_zone, zone_wise_data) ==
    TotalRow(current_zone \o SuffixTotal, zone_wise_data[current_zone])

\* for row in data: ... (lines 390-408); acc is [final_data, current_zone]
RECURSIVE ZoneLoop(_, _, _)
ZoneLoop(data, zone_wise_data, acc) ==
    IF data = <<>> THEN acc
    ELSE LET row == Head(data)
             changed == row.zone # acc.current_zone
             with_total ==
                 IF changed /\ acc.current_zone # NoneStr
                 THEN Append(acc.final_data, ZoneTotalRow(acc.current_zone, zone_wise_data))
                 ELSE acc.final_data
         IN ZoneLoop(Tail(data), zone_wise_data,
                     [final_data |-> Append(with_total, row),
                      current_zone |-> IF changed THEN row.zone ELSE acc.current_zone])

\* "if current_zone:" ... "final_data.append(Grand Total)" (lines 410-436)
FinishData(acc, zone_wise_data, grand_total) ==
    LET with_last == IF Truthy(acc.current_zone)
                     THEN Append(acc.final_data, ZoneTotalRow(acc.current_zone, zone_wise_data))
                     ELSE acc.final_data
    IN Append(with_last, TotalRow(GrandTotalName, grand_total))

\* get_point_wise_attendance(filters), given the order in which the grouping
\* query returned its rows (points) and the rows of the Attendance queries.
get_point_wise_attendance(pz, filters, points, counts) ==
    LET allowed == AllowedPoints(pz, filters.zones)
        looped == PointsLoop(points, point_zone_map(pz, allowed), counts,
                             [data |-> <<>>, zone_wise_data |-> <<>>])
        data == SortData(looped.data)
        zoned == ZoneLoop(data, looped.zone_wise_data,
                          [final_data |-> <<>>, current_zone |-> NoneStr])
    IN FinishData(zoned, looped.zone_wise_data, GrandTotal(data))

\* A variant that fills the summary of the empty report with zeros only.
EmptySummaryAllZero(total_employees) ==
    [total_employees |-> 0, present |-> 0, absent |-> 0, on_leave |-> 0,
     attendance_percentage |-> ZeroPct]

\* report_summary of the branch total_marked == 0 (lines 38-69)
EmptySummary(total_employees) ==
    [total_employees |-> total_employees, present |-> 0, absent |-> 0, on_leave |-> 0,
     attendance_percentage |-> ZeroPct]

\* execute(filters) from line 14 on.  The designation-wise lines of the
\* message are left out: they read the Employee designations only.
execute(pz, filters, points, counts) ==
    LET data == get_point_wise_attendance(pz, filters, points, counts)
        rows == SubSeq(data, 1, Len(data) - 1)
        total_employees == SumSeq(rows, "total_employees")
        total_present == SumSeq(rows, "present")
        total_absent == SumSeq(rows, "absent")
        total_on_leave == SumSeq(rows, "on_leave")
        total_marked == total_present + total_absent + total_on_leave
    IN IF \E i \in DOMAIN data : ~data[i].attendance_percentage.ok
       THEN [raised |-> "ZeroDivisionError", data |-> <<>>, message |-> "",
             chart |-> <<>>, report_summary |-> <<>>]
       ELSE IF total_marked = 0
       THEN [raised |-> "",
             data |-> data,
             message |-> "No attendance records found for the selected date.",
             chart |-> <<0, 0, 0>>,
             report_summary |-> EmptySummary(total_employees)]
       ELSE [raised |-> "",
             data |-> data,
             message |-> "Total Employees: ... Overall Attendance: ...",
             chart |-> <<total_present, total_absent, total_on_leave>>,
             report_summary |->
                 [total_employees |-> total_employees,
                  present |-> total_present,
                  absent |-> total_absent,
                  on_leave |-> total_on_leave,
                  attendance_percentage |-> PyDiv(total_present * 100, total_marked)]]

\* The filters of a call: none, a zone filter, a point filter.
Filters ==
    {[zones |-> {}, points |-> {}],
     [zones |-> {"ZN-0002"}, points |-> {}],
     [zones |-> {}, points |-> {PointP1, PointP2}]}

\* Employees without a submitted Attendance row: at no point, at every
\* point, or at P10 only.
UnmarkedStores ==
    {[p \in Points |-> 0],
     [p \in Points |-> 1],
     [p \in Points |-> IF p = PointP10 THEN 1 ELSE 0]}

RepInit ==
    /\ point_zone \in [Points -> ZoneIds \cup {None}]
    /\ attendance \in AttendanceStores(MaxAttendance)
    /\ unmarked \in UnmarkedStores
    /\ rep_pc = "idle"
    /\ rep_filters = <<>>
    /\ rep_points = <<>>
    /\ rep_out = <<>>
    /\ PermIdle
    /\ RouteIdle
    /\ VisitIdle
    /\ VillageIdle

\* One call of execute: the two queries whose row order the store does not
\* fix return their rows in any order.
Execute(filters) ==
    /\ rep_pc = "idle"
    /\ LET inlist == GroupingPoints(AllowedPoints(point_zone, filters.zones), filters.points)
       IN /\ rep_filters' = filters
          /\ \E points \in Orderings(GroupRows(attendance, unmarked, inlist)) :
                \E counts \in AttendanceCountOrders(attendance, inlist) :
                    /\ rep_points' = points
                    /\ rep_out' = execute(point_zone, filters, points, counts)
    /\ rep_pc' = "done"
    /\ UNCHANGED <<point_zone, attendance, unmarked>>
    /\ UNCHANGED <<permVars, routeVars, visitVars, villageVars>>

RepNext == \E filters \in Filters : Execute(filters)

SpecReport == RepInit /\ [][RepNext]_vars

(***************************************************************************)
(* Properties of the report                                                *)
(***************************************************************************)
RepDone == rep_pc = "done" /\ rep_out.raised = ""

IsPointRow(row) == row.point # EmptyStr

Marked(row) == row.present + row.absent + row.on_leave

\* The positions of the point rows / of the rows of zone z in final_data.
PointRowsAt(data) == {i \in DOMAIN data : IsPointRow(data[i])}

ZoneRowsAt(data, z) == {i \in PointRowsAt(data) : data[i].zone = z}

\* The positions of the total rows before the last row.
SubtotalsAt(data) == {i \in DOMAIN data : ~IsPointRow(data[i]) /\ i < Len(data)}

\* C3: every point row counts Present and Work From Home rows together as
\* present, Absent rows as absent and On Leave rows as on_leave.
C3_PresentCountsBothStatuses ==
    RepDone =>
        \A i \in PointRowsAt(rep_out.data) :
            LET row == rep_out.data[i] IN
            /\ row.present = attendance[<<row.point, "Present">>]
                             + attendance[<<row.point, "Work From Home">>]
            /\ row.absent = attendance[<<row.point, "Absent">>]
            /\ row.on_leave = attendance[<<row.point, "On Leave">>]

\* C4: the point rows of each zone, the empty zone included, are directly
\* followed by exactly one subtotal row of that zone, and the one Grand Total
\* row is the last row.
C4_SubtotalAfterEveryZone ==
    RepDone =>
        LET data == rep_out.data IN
        /\ Len(data) >= 1
        /\ data[Len(data)].zone = GrandTotalName
        /\ ~IsPointRow(data[Len(data)])
        /\ \A i \in SubtotalsAt(data) :
              /\ i > 1
              /\ IsPointRow(data[i - 1])
              /\ data[i].zone = data[i - 1].zone \o SuffixTotal
        /\ \A i \in PointRowsAt(data) :
              \/ IsPointRow(data[i + 1]) /\ data[i + 1].zone = data[i].zone
              \/ /\ i + 1 < Len(data)
                 /\ ~IsPointRow(data[i + 1])
                 /\ data[i + 1].zone = data[i].zone \o SuffixTotal
        /\ \A i \in PointRowsAt(data) :
              Cardinality({j \in SubtotalsAt(data) :
                              data[j].zone = data[i].zone \o SuffixTotal}) = 1

\* C5: a zone subtotal row carries the sums over exactly the point rows of
\* its zone, and its percentage is 100 * sum(present) / sum(marked) of them.
C5_SubtotalIsRatioOfSums ==
    RepDone =>
        LET data == rep_out.data IN
        \A i \in SubtotalsAt(data) :
            LET z == data[i - 1].zone
                at == ZoneRowsAt(data, z)
                sum(f) == SumOver(at, [j \in at |-> data[j][f]])
                marked == sum("present") + sum("absent") + sum("on_leave")
                pct == data[i].attendance_percentage
            IN /\ data[i].zone = z \o SuffixTotal
               /\ data[i].total_employees = sum("total_employees")
               /\ data[i].present = sum("present")
               /\ data[i].absent = sum("absent")
               /\ data[i].on_leave = sum("on_leave")
               /\ pct.ok
               /\ pct.den > 0
               /\ marked > 0 => pct.num * marked = 100 * sum("present") * pct.den
               /\ marked = 0 => pct.num = 0

\* C5 witness: a subtotal of a zone with two point rows, beside a point row
\* of another zone, whose percentage differs from the mean of the two
\* per-point percentages.
C5_Witness ==
    /\ RepDone
    /\ \E i \in SubtotalsAt(rep_out.data) :
          LET data == rep_out.data
              pct == data[i].attendance_percentage
              a == data[i - 2].attendance_percentage
              b == data[i - 1].attendance_percentage
          IN /\ i = 3
             /\ IsPointRow(data[1]) /\ IsPointRow(data[2])
             /\ data[1].zone = data[2].zone
             /\ data[1].zone # EmptyStr
             /\ PointRowsAt(data) = {1, 2, 4}
             /\ Marked(data[4]) > 0
             /\ pct.num > 0
             /\ pct.num * 2 * a.den * b.den # pct.den * (a.num * b.den + b.num * a.den)

\* C6: no call raises ZeroDivisionError, and every row (point, zone subtotal,
\* grand total) whose present + absent + on_leave is zero has percentage 0.
C6_ZeroMarkedIsZeroPercent ==
    rep_pc = "done" =>
        /\ rep_out.raised = ""
        /\ \A i \in DOMAIN rep_out.data :
              LET row == rep_out.data[i] IN
              /\ row.attendance_percentage.ok
              /\ Marked(row) = 0 => row.attendance_percentage = [ok |-> TRUE, num |-> 0, den |-> 1]
        /\ \A i \in PointRowsAt(rep_out.data) :
              LET row == rep_out.data[i] IN
              (\A st \in Statuses : attendance[<<row.point, st>>] = 0)
                  => row.attendance_percentage.num = 0

\* C6 witness: a point with employees and no submitted attendance, its zone
\* subtotal also without any, beside a point that has attendance.
C6_Witness ==
    /\ RepDone
    /\ \E i \in PointRowsAt(rep_out.data), j \in SubtotalsAt(rep_out.data),
          k \in PointRowsAt(rep_out.data) :
          /\ Marked(rep_out.data[i]) = 0
          /\ rep_out.data[i].total_employees > 0
          /\ j = i + 1
          /\ Marked(rep_out.data[j]) = 0
          /\ Marked(rep_out.data[k]) > 0

\* (zone, point) order, zone first, the empty zone before every named one.
RowBefore(r1, r2) ==
    IF r1.zone # r2.zone THEN StrLess(r1.zone, r2.zone) ELSE StrLess(r1.point, r2.point)

\* C7: the point rows of the output are in ascending (zone, point) order, the
\* rows without a zone first, whatever order the points were read in and
\* with the subtotal rows in between.
C7_PointRowsSorted ==
    RepDone =>
        LET data == rep_out.data IN
        /\ \A i, j \in PointRowsAt(data) : i < j => RowBefore(data[i], data[j])
        /\ {data[i].point : i \in PointRowsAt(data)}
              = {r.point : r \in {q \in Range(rep_points) : q.point # EmptyStr}}
        /\ Cardinality(PointRowsAt(data)) = Len(rep_points)
              \/ \E q \in Range(rep_points) : q.point = EmptyStr

\* C7 witness: three point rows read in an order that is not the output's:
\* P2 without a zone comes first, then P10 before P1 because of their zones.
C7_Witness ==
    /\ RepDone
    /\ Len(rep_points) = 3
    /\ rep_points[1].point = PointP1
    /\ rep_points[2].point = PointP10
    /\ rep_points[3].point = PointP2
    /\ LET data == rep_out.data IN
       /\ Len(data) = 7
       /\ data[1].point = PointP2 /\ data[1].zone = EmptyStr
       /\ data[2].zone = SuffixTotal
       /\ data[3].point = PointP10
       /\ data[5].point = PointP1

\* C8 as stated: with no marked attendance the message is the "no records"
\* one, the chart is [0, 0, 0] and all five summary metrics are 0.
C8_EmptySummaryAllZero ==
    (RepDone /\ \A i \in PointRowsAt(rep_out.data) : Marked(rep_out.data[i]) = 0)
    => /\ rep_out.message = "No attendance records found for the selected date."
       /\ rep_out.chart = <<0, 0, 0>>
       /\ rep_out.report_summary.total_employees = 0
       /\ rep_out.report_summary.present = 0
       /\ rep_out.report_summary.absent = 0
       /\ rep_out.report_summary.on_leave = 0
       /\ rep_out.report_summary.attendance_percentage.num = 0

\* C8 amended: with no marked attendance the message is the "no records"
\* one, the chart is [0, 0, 0] and Present, Absent, On Leave and Attendance %
\* are 0; Total Employees is not zeroed, it is the head count summed over
\* the rows before the last one.
C8_EmptySummaryKeepsHeadcount ==
    (RepDone /\ \A i \in PointRowsAt(rep_out.data) : Marked(rep_out.data[i]) = 0)
    => /\ rep_out.message = "No attendance records found for the selected date."
       /\ rep_out.chart = <<0, 0, 0>>
       /\ rep_out.report_summary.present = 0
       /\ rep_out.report_summary.absent = 0
       /\ rep_out.report_summary.on_leave = 0
       /\ rep_out.report_summary.attendance_percentage = [ok |-> TRUE, num |-> 0, den |-> 1]
       /\ rep_out.report_summary.total_employees
             = SumSeq(SubSeq(rep_out.data, 1, Len(rep_out.data) - 1), "total_employees")

\* C8 witness: a report over points that have employees and no attendance.
C8_Witness ==
    /\ RepDone
    /\ Cardinality(PointRowsAt(rep_out.data)) >= 2
    /\ \A i \in PointRowsAt(rep_out.data) : Marked(rep_out.data[i]) = 0
    /\ rep_out.report_summary.total_employees > 0
    /\ rep_out.chart = <<0, 0, 0>>

\* C15: the totals of the summary panel and of the chart (the message
\* prints the same numbers) equal the values of the Grand Total row, the sums
\* over the point rows; zone subtotal rows are not counted a second time.
C15_SummaryEqualsGrandTotal ==
    (RepDone /\ Len(rep_out.data) > 0) =>
        LET grand == rep_out.data[Len(rep_out.data)] IN
        /\ rep_out.report_summary.total_employees = grand.total_employees
        /\ rep_out.report_summary.present = grand.present
        /\ rep_out.report_summary.absent = grand.absent
        /\ rep_out.report_summary.on_leave = grand.on_leave
        /\ rep_out.chart = <<grand.present, grand.absent, grand.on_leave>>

(***************************************************************************)
(* Route hook: doc_events/route.py                                         *)
(***************************************************************************)
MaxRoutes == 2

\* doc.name of the routes, in insertion order: "R1", "r2", "R3", "R4".
RouteDocNames == <<<<82, 49>>, <<114, 50>>, <<82, 51>>, <<82, 52>>>>

\* The route_name values of the inserted routes: "Default North", "DEFAULT", "old Default",
\* "default", "defaul", "North", "" and a missing route_name.
RouteNames ==
    {<<68, 101, 102, 97, 117, 108, 116, 32, 78, 111, 114, 116, 104>>,
     <<68, 69, 70, 65, 85, 76, 84>>,
     <<111, 108, 100, 32, 68, 101, 102, 97, 117, 108, 116>>,
     <<100, 101, 102, 97, 117, 108, 116>>,
     <<100, 101, 102, 97, 117, 108>>,
     <<78, 111, 114, 116, 104>>,
     EmptyStr,
     NoneStr}

Branches == {"Hyderabad", None}

\* str.lower() on ASCII text
Lower(str) == [i \in DOMAIN str |-> IF str[i] \in 65..90 THEN str[i] + 32 ELSE str[i]]

\* Python's "sub in str"
Contains(sub, str) ==
    \E i \in 0..(Len(str) - Len(sub)) : SubSeq(str, i + 1, i + Len(sub)) = sub

DefaultWord == <<100, 101, 102, 97, 117, 108, 116>>      \* "default"

\* A variant that forgets .lower().
IsDefaultRouteCaseSensitive(route_name) == Contains(DefaultWord, route_name)

\* "default" in doc.route_name.lower() (line 7), route_name being a str
IsDefaultRoute(route_name) == Contains(DefaultWord, Lower(route_name))

\* The document built by frappe.get_doc({...}) (lines 10-20); posted_on, the
\* time of the call, is the number of the call.
JobOpeningDoc(doc, now) ==
    [doctype |-> "Job Opening",
     job_title |-> <<"Vacancy for ", doc.name>>,
     designation |-> "Delivery Partner",
     status |-> "Open",
     posted_on |-> now,
     company |-> "SIDS FARM PRIVATE LIMITED",
     custom_travel_route |-> doc.name,
     location |-> doc.branch,
     route |-> <<"jobs/sids_farm_private_limited/", Lower(doc.name)>>]

\* How job_opening.insert() (line 22) can end: it succeeds; it raises before
\* the document is written (validation, naming, a duplicate); or it raises
\* once the document is written (a hook of Job Opening, which insert runs
\* after the write).  The written document is part of the transaction that
\* the insert of the route commits.
InsertOutcomes == {"ok", "raises", "raises after write"}

\* A variant of the except clause that logs and raises again.
LogErrorAndRaise(doc, jobs, log) ==
    [job_openings |-> jobs, outcome |-> "raised", raised |-> "Exception",
     error_log |-> Append(log, <<"New Route Job Opening Creation Error - ", doc.name>>)]

\* The except clause (lines 25-29): frappe.log_error, no rollback, no raise.
LogError(doc, jobs, log) ==
    [job_openings |-> jobs, outcome |-> "logged", raised |-> "",
     error_log |-> Append(log, <<"New Route Job Opening Creation Error - ", doc.name>>)]

\* after_insert(doc, method): what it does to (job_openings, error_log) when
\* line 22 ends as insert says.  AttributeError is what None.lower()
\* raises.
after_insert(doc, now, insert, jobs, log) ==
    IF doc.route_name = NoneStr
    THEN LogError(doc, jobs, log)
    ELSE IF IsDefaultRoute(doc.route_name)
    THEN [job_openings |-> jobs, error_log |-> log, outcome |-> "skipped", raised |-> ""]
    ELSE IF insert = "ok"
    THEN [job_openings |-> jobs \cup {JobOpeningDoc(doc, now)}, error_log |-> log,
          outcome |-> "inserted", raised |-> ""]
    ELSE IF insert = "raises"
    THEN LogError(doc, jobs, log)
    ELSE LogError(doc, jobs \cup {JobOpeningDoc(doc, now)}, log)

RouteInit ==
    /\ RouteIdle
    /\ PermIdle
    /\ RepIdle
    /\ VisitIdle
    /\ VillageIdle

\* A route document is inserted and the framework runs after_insert on it;
\* an exception leaving the hook aborts the insert of the route.
InsertRoute(route_name, branch, insert) ==
    /\ Len(routes) < MaxRoutes
    /\ LET doc == [name |-> RouteDocNames[Len(routes) + 1],
                   route_name |-> route_name, branch |-> branch]
           done == after_insert(doc, Len(routes) + 1, insert, job_openings, error_log)
       IN /\ routes' = IF done.raised = "" THEN Append(routes, doc) ELSE routes
          /\ job_openings' = done.job_openings
          /\ error_log' = done.error_log
          /\ hook_calls' = Append(hook_calls,
                                  [insert_ok |-> insert = "ok", insert |-> insert,
                                   route |-> doc, outcome |-> done.outcome,
                                   raised |-> done.raised])
    /\ UNCHANGED <<permVars, repVars, visitVars, villageVars>>

RouteNext ==
    \E route_name \in RouteNames, branch \in Branches, insert \in InsertOutcomes :
        InsertRoute(route_name, branch, insert)

SpecRoute == RouteInit /\ [][RouteNext]_vars

(***************************************************************************)
(* Properties of the route hook                                            *)
(***************************************************************************)
\* Character c is letter w (lower case) in either case.
SameLetter(c, w) == c = w \/ c = w - 32

\* route_name holds the word "default" at some position, in any letter case.
HasDefaultAnyCase(route_name) ==
    \E i \in 1..Len(route_name) :
        /\ i + 6 <= Len(route_name)
        /\ \A k \in 1..7 : SameLetter(route_name[i + k - 1], DefaultWord[k])

JobsOfRoute(name) == {j \in job_openings : j.custom_travel_route = name}

\* C10: a route whose route_name contains "default" in any letter case has no
\* Job Opening; a route with any other route_name has exactly one, which
\* references it, when job_opening.insert() succeeded.
C10_DefaultRoutesGetNoJobOpening ==
    \A i \in DOMAIN routes :
        LET doc == routes[i] IN
        /\ (doc.route_name # NoneStr /\ HasDefaultAnyCase(doc.route_name))
              => JobsOfRoute(doc.name) = {}
        /\ (doc.route_name # NoneStr /\ ~HasDefaultAnyCase(doc.route_name)
               /\ hook_calls[i].insert_ok)
              => /\ Cardinality(JobsOfRoute(doc.name)) = 1
                 /\ \A j \in JobsOfRoute(doc.name) :
                       /\ j.doctype = "Job Opening"
                       /\ j.location = doc.branch

\* C10 witness: "Default North" was inserted and got no Job Opening although
\* the insert would have succeeded, and "North" was inserted and got one.
C10_Witness ==
    /\ Len(routes) = 2
    /\ routes[1].route_name = <<68, 101, 102, 97, 117, 108, 116, 32, 78, 111, 114, 116, 104>>
    /\ hook_calls[1].insert_ok
    /\ JobsOfRoute(routes[1].name) = {}
    /\ routes[2].route_name = <<78, 111, 114, 116, 104>>
    /\ Cardinality(JobsOfRoute(routes[2].name)) = 1

\* The creation of the Job Opening failed in hook call i: reading
\* doc.route_name raised, or line 22 raised for a route that is not a
\* default route.
CreationFailed(i) ==
    \/ hook_calls[i].route.route_name = NoneStr
    \/ /\ ~HasDefaultAnyCase(hook_calls[i].route.route_name)
       /\ hook_calls[i].insert # "ok"

\* The failure happened before the Job Opening document was written.
FailedBeforeWrite(i) ==
    \/ hook_calls[i].route.route_name = NoneStr
    \/ hook_calls[i].insert = "raises"

ErrorsLoggedFor(name) ==
    {k \in DOMAIN error_log :
        error_log[k] = <<"New Route Job Opening Creation Error - ", name>>}

\* C12 as stated: when the creation of the Job Opening fails at any step,
\* the failure is logged, nothing is raised to the caller, the route stays
\* inserted and no Job Opening exists for the route.
C12_FailureLeavesNoJobOpening ==
    \A i \in DOMAIN hook_calls :
        CreationFailed(i) =>
            /\ hook_calls[i].raised = ""
            /\ ErrorsLoggedFor(hook_calls[i].route.name) # {}
            /\ \E r \in DOMAIN routes : routes[r] = hook_calls[i].route
            /\ JobsOfRoute(hook_calls[i].route.name) = {}

\* C12, amended: when the creation of the Job Opening fails at any step, the
\* failure is logged exactly once, nothing is raised to the caller and the
\* route stays inserted; no Job Opening exists for the route when the
\* failure came before the document was written, and the hook removes
\* nothing that was written before the failure.
C12_FailureIsLoggedNotRaised ==
    \A i \in DOMAIN hook_calls :
        CreationFailed(i) =>
            /\ hook_calls[i].raised = ""
            /\ Cardinality(ErrorsLoggedFor(hook_calls[i].route.name)) = 1
            /\ \E r \in DOMAIN routes : routes[r] = hook_calls[i].route
            /\ FailedBeforeWrite(i) => JobsOfRoute(hook_calls[i].route.name) = {}
            /\ ~FailedBeforeWrite(i) => JobsOfRoute(hook_calls[i].route.name) # {}

\* C12 witness: a route whose route_name is None and a route "North" whose
\* job_opening.insert() raised were both inserted, both failures are in the
\* error log and there is no Job Opening.
C12_Witness ==
    /\ Len(routes) = 2
    /\ routes[1].route_name = NoneStr
    /\ routes[2].route_name = <<78, 111, 114, 116, 104>>
    /\ hook_calls[2].insert = "raises"
    /\ Len(error_log) = 2
    /\ job_openings = {}

(***************************************************************************)
(* Farmer visit endpoint: custom_api/api_end_points/farmer_visit_api.py    *)
(***************************************************************************)
MaxDocs == 2

FarmerDocNames == <<"FARMER-0001", "FARMER-0002", "FARMER-0003">>

VisitDocNames == <<"VISIT-0001", "VISIT-0002", "VISIT-0003">>

\* The parameter list of "def create_farmer_visit(...)" (lines 68-72).
create_farmer_visit_params ==
    <<[name |-> "farmer_name", has_default |-> TRUE],
      [name |-> "farmer_create_detail", has_default |-> TRUE],
      [name |-> "visit_tracker_detail", has_default |-> FALSE]>>

\* Python compiles a def only if no parameter without a default follows one
\* with a default ("SyntaxError: non-default argument follows default
\* argument" otherwise).
DefCompiles(params) ==
    \A i, j \in DOMAIN params :
        (i < j /\ params[i].has_default) => params[j].has_default

\* Importing farmer_visit_api, which a call of any of its endpoints needs.
ModuleLoads == DefCompiles(create_farmer_visit_params)

\* Python truthiness of a name (str or None) and of a dict or None; a dict
\* is [is_none, keys].
TruthyName(x) == x # None /\ x # ""

TruthyDict(d) == ~d.is_none /\ d.keys # {}

NoResponse == [raised |-> "", http_status_code |-> 0, success |-> FALSE, code |-> "", data |-> <<>>]

\* The envelope of an error return; it also sets frappe.local.response.
ErrorEnvelope(http_status_code, code) ==
    [raised |-> "", http_status_code |-> http_status_code, success |-> FALSE,
     code |-> code, data |-> <<>>]

\* verify_dp_token(headers) of attendance_api: (is_valid, result)
verify_dp_token(headers) ==
    IF headers.token_valid
    THEN [is_valid |-> TRUE, result |-> [employee |-> headers.employee]]
    ELSE [is_valid |-> FALSE, result |-> ErrorEnvelope(401, "UNAUTHORIZED")]

\* handle_error_response(e, message) of attendance_api
handle_error_response(e) == ErrorEnvelope(500, "INTERNAL_ERROR")

\* The body of create_farmer_visit (lines 82-177).  env says how the
\* store answers: farmer.insert(), visit.insert() and visit.submit().
\* handle_base64_image is not a name of the module: reaching line 125 raises
\* NameError, which the last except turns into the 500 response, as it does
\* the TypeError of "in" on a missing visit_tracker_detail.
create_farmer_visit_body(req, env, frm, vis) ==
    LET verified == verify_dp_token(req.headers)
        emp == verified.result.employee
        new_farmer == [name |-> FarmerDocNames[Cardinality(frm) + 1],
                       doctype |-> "Farmer Details", registered_by |-> emp]
        creates == TruthyDict(req.farmer_create_detail)
        frm2 == IF creates /\ env.farmer_insert_ok THEN frm \cup {new_farmer} ELSE frm
        farmer_name2 == IF creates THEN new_farmer.name ELSE req.farmer_name
        new_visit == [name |-> VisitDocNames[Cardinality(vis) + 1],
                      doctype |-> "Visit Tracker", farmer |-> farmer_name2,
                      visited_by |-> emp,
                      docstatus |-> IF env.visit_submit_ok THEN 1 ELSE 0]
    IN IF ~verified.is_valid
       THEN [farmers |-> frm, visits |-> vis,
             resp |-> [verified.result EXCEPT !.http_status_code = 401]]
       ELSE IF ~TruthyName(req.farmer_name) /\ ~TruthyDict(req.farmer_create_detail)
       THEN [farmers |-> frm, visits |-> vis, resp |-> ErrorEnvelope(400, "INVALID_INPUT")]
       ELSE IF creates /\ ~env.farmer_insert_ok
       THEN [farmers |-> frm, visits |-> vis,
             resp |-> ErrorEnvelope(400, "FARMER_CREATION_FAILED")]
       ELSE IF req.visit_tracker_detail.is_none
       THEN [farmers |-> frm2, visits |-> vis, resp |-> handle_error_response("TypeError")]
       ELSE IF "visit_image" \in req.visit_tracker_detail.keys
       THEN [farmers |-> frm2, visits |-> vis, resp |-> handle_error_response("NameError")]
       ELSE IF ~env.visit_insert_ok
       THEN [farmers |-> frm2, visits |-> vis,
             resp |-> ErrorEnvelope(400, "VISIT_CREATION_FAILED")]
       ELSE IF ~env.visit_submit_ok
       THEN [farmers |-> frm2, visits |-> vis \cup {new_visit},
             resp |-> ErrorEnvelope(400, "VISIT_CREATION_FAILED")]
       ELSE [farmers |-> frm2, visits |-> vis \cup {new_visit},
             resp |-> [raised |-> "", http_status_code |-> 201, success |-> TRUE,
                       code |-> "VISIT_CREATED",
                       data |-> <<new_visit.name, farmer_name2>>]]

\* A request for create_farmer_visit as the framework serves it: the module
\* is imported first, and a module that does not compile runs no handler.
create_farmer_visit(req, env, frm, vis) ==
    IF ~ModuleLoads
    THEN [farmers |-> frm, visits |-> vis,
          resp |-> [NoResponse EXCEPT !.raised = "SyntaxError"]]
    ELSE create_farmer_visit_body(req, env, frm, vis)

Headers ==
    {[token_valid |-> FALSE, employee |-> None],
     [token_valid |-> TRUE, employee |-> "EMP-1"],
     [token_valid |-> TRUE, employee |-> "EMP-2"]}

FarmerNameArgs == {None, "", "FARMER-0001", "FARMER-0009"}

FarmerCreateDetails ==
    {[is_none |-> TRUE, keys |-> {}],
     [is_none |-> FALSE, keys |-> {}],
     [is_none |-> FALSE, keys |-> {"farmer_name", "mobile_no"}]}

VisitTrackerDetails ==
    {[is_none |-> TRUE, keys |-> {}],
     [is_none |-> FALSE, keys |-> {"visit_date", "purpose"}],
     [is_none |-> FALSE, keys |-> {"visit_date", "visit_image"}]}

Requests ==
    [headers : Headers, farmer_name : FarmerNameArgs,
     farmer_create_detail : FarmerCreateDetails,
     visit_tracker_detail : VisitTrackerDetails]

Envs == [farmer_insert_ok : BOOLEAN, visit_insert_ok : BOOLEAN, visit_submit_ok : BOOLEAN]

VisitInit ==
    /\ VisitIdle
    /\ VillageIdle
    /\ PermIdle
    /\ RepIdle
    /\ RouteIdle

CreateFarmerVisit(req, env) ==
    /\ Cardinality(farmers) < MaxDocs
    /\ Cardinality(visits) < MaxDocs
    /\ LET done == create_farmer_visit(req, env, farmers, visits) IN
       /\ farmers' = done.farmers
       /\ visits' = done.visits
       /\ visit_resp' = done.resp
    /\ visit_pc' = "done"
    /\ visit_before' = [farmers |-> farmers, visits |-> visits]
    /\ visit_req' = req
    /\ visit_env' = env
    /\ UNCHANGED <<permVars, repVars, routeVars, villageVars>>

VisitNext == \E req \in Requests, env \in Envs : CreateFarmerVisit(req, env)

SpecVisit == VisitInit /\ [][VisitNext]_vars

(***************************************************************************)
(* Properties of the farmer visit endpoint                                 *)
(***************************************************************************)
\* C9: a call with a valid credential, a visit_tracker_detail and neither
\* farmer_name nor farmer_create_detail answers 400 INVALID_INPUT and
\* creates no Farmer Details and no Visit Tracker document.
C9_NoFarmerIsInvalidInput ==
    (/\ visit_pc = "done"
     /\ visit_req.headers.token_valid
     /\ ~TruthyName(visit_req.farmer_name)
     /\ ~TruthyDict(visit_req.farmer_create_detail)
     /\ ~visit_req.visit_tracker_detail.is_none)
    => /\ visit_resp.raised = ""
       /\ visit_resp.http_status_code = 400
       /\ visit_resp.code = "INVALID_INPUT"
       /\ ~visit_resp.success
       /\ farmers = visit_before.farmers
       /\ visits = visit_before.visits

\* C13: a call with a valid credential and a farmer_create_detail whose
\* Farmer Details insert fails answers 400 FARMER_CREATION_FAILED, and no
\* Visit Tracker (and no Farmer Details) document is created by it.
C13_FarmerFailureStopsRequest ==
    (/\ visit_pc = "done"
     /\ visit_req.headers.token_valid
     /\ TruthyDict(visit_req.farmer_create_detail)
     /\ ~visit_env.farmer_insert_ok)
    => /\ visit_resp.raised = ""
       /\ visit_resp.http_status_code = 400
       /\ visit_resp.code = "FARMER_CREATION_FAILED"
       /\ ~visit_resp.success
       /\ visits = visit_before.visits
       /\ farmers = visit_before.farmers

\* The documents the last request added.
NewFarmers == farmers \ visit_before.farmers

NewVisits == visits \ visit_before.visits

\* A step after the creation of the farmer fails in the last request: the
\* visit detail is missing or holds an image to process, or the insert or
\* the submit of the visit fails.
LaterStepFails ==
    \/ visit_req.visit_tracker_detail.is_none
    \/ "visit_image" \in visit_req.visit_tracker_detail.keys
    \/ ~visit_env.visit_insert_ok
    \/ ~visit_env.visit_submit_ok

\* C14: when the request created a Farmer Details document and a later step
\* fails, the request answers an error (400 VISIT_CREATION_FAILED when it is
\* the insert or the submit of the visit), the new Farmer Details document
\* stays and no submitted Visit Tracker of the request references it; a 201
\* VISIT_CREATED answer is given only with a new, submitted Visit Tracker,
\* which references the farmer the request created before it.
C14_FarmerFirstAndNotRolledBack ==
    visit_pc = "done" =>
        /\ (/\ visit_req.headers.token_valid
            /\ TruthyDict(visit_req.farmer_create_detail)
            /\ visit_env.farmer_insert_ok
            /\ LaterStepFails)
           => /\ visit_resp.raised = ""
              /\ ~visit_resp.success
              /\ visit_resp.http_status_code >= 400
              /\ (/\ ~visit_req.visit_tracker_detail.is_none
                  /\ "visit_image" \notin visit_req.visit_tracker_detail.keys)
                 => /\ visit_resp.http_status_code = 400
                    /\ visit_resp.code = "VISIT_CREATION_FAILED"
              /\ Cardinality(NewFarmers) = 1
              /\ \A f \in NewFarmers :
                    ~\E v \in NewVisits : v.farmer = f.name /\ v.docstatus = 1
        /\ (/\ visit_req.headers.token_valid
            /\ TruthyDict(visit_req.farmer_create_detail)
            /\ visit_env.farmer_insert_ok
            /\ ~LaterStepFails)
           => /\ visit_resp.success
              /\ visit_resp.http_status_code = 201
              /\ visit_resp.code = "VISIT_CREATED"
        /\ visit_resp.success
           => /\ visit_resp.http_status_code = 201
              /\ visit_resp.code = "VISIT_CREATED"
              /\ Cardinality(NewVisits) = 1
              /\ \A v \in NewVisits :
                    /\ v.docstatus = 1
                    /\ TruthyDict(visit_req.farmer_create_detail)
                       => \E f \in NewFarmers : v.farmer = f.name

(***************************************************************************)
(* Assigned villages endpoint: get_assigned_villages of farmer_visit_api   *)
(***************************************************************************)
MaxMappings == 2

MappingDocNames == <<"VBM-0001", "VBM-0002", "VBM-0003">>

\* The Village documents of the store; "V9" is a name a Village Map row may
\* still hold after its Village was deleted.
VillageDocs == {"V1", "V2", "V3"}

\* The village lists a Village BDE Mapping may hold in its Village Map rows.
VillageLists == {<<>>, <<"V1">>, <<"V1", "V2">>, <<"V3">>, <<"V9">>}

MappingEmployees == {"EMP-1", "EMP-2"}

\* The Village BDE Mapping stores of n documents, in get_all order.
RECURSIVE MappingStores(_)
MappingStores(n) ==
    IF n = 0 THEN {<<>>}
    ELSE LET shorter == MappingStores(n - 1) IN
         shorter \cup
         {Append(st, [name |-> MappingDocNames[Len(st) + 1], employee |-> e, villages |-> vl])
            : st \in {x \in shorter : Len(x) = n - 1},
              e \in MappingEmployees, vl \in VillageLists}

\* frappe.get_all("Village BDE Mapping", filters={"employee": employee})
\* (lines 195-199): the employee's documents, in store order.
MappingsOf(mappings, emp) == SelectSeq(mappings, LAMBDA m : m.employee = emp)

\* The rows the endpoint reads (lines 212-217): those of the first mapping,
\* village_mapping[0].
VillagesRead(mine) == mine[1].villages

\* The body of get_assigned_villages (lines 185-245).  frappe.get_doc of a
\* Village that does not exist raises, which the except turns into the 500
\* response.
get_assigned_villages_body(headers, mappings) ==
    LET verified == verify_dp_token(headers)
        village_mapping == MappingsOf(mappings, verified.result.employee)
        villages == VillagesRead(village_mapping)
    IN IF ~verified.is_valid
       THEN [verified.result EXCEPT !.http_status_code = 401]
       ELSE IF village_mapping = <<>>
       THEN ErrorEnvelope(404, "NO_VILLAGES_ASSIGNED")
       ELSE IF \E i \in DOMAIN villages : villages[i] \notin VillageDocs
       THEN handle_error_response("DoesNotExistError")
       ELSE [raised |-> "", http_status_code |-> 200, success |-> TRUE,
             code |-> "VILLAGES_RETRIEVED", data |-> villages]

\* A request for get_assigned_villages as the framework serves it: the
\* endpoint lives in the module of create_farmer_visit, which is imported
\* first.
get_assigned_villages(headers, mappings) ==
    IF ~ModuleLoads
    THEN [NoResponse EXCEPT !.raised = "SyntaxError"]
    ELSE get_assigned_villages_body(headers, mappings)

VillageInit ==
    /\ village_mappings \in MappingStores(MaxMappings)
    /\ villages_pc = "idle"
    /\ villages_req = <<>>
    /\ villages_resp = <<>>
    /\ VisitIdle
    /\ PermIdle
    /\ RepIdle
    /\ RouteIdle

GetAssignedVillages(headers) ==
    /\ villages_pc' = "done"
    /\ villages_req' = headers
    /\ villages_resp' = get_assigned_villages(headers, village_mappings)
    /\ UNCHANGED <<village_mappings, permVars, repVars, routeVars, visitVars>>

VillageNext == \E headers \in Headers : GetAssignedVillages(headers)

SpecVillage == VillageInit /\ [][VillageNext]_vars

(***************************************************************************)
(* Properties of the assigned villages endpoint                            *)
(***************************************************************************)
\* The villages of every Village BDE Mapping document of an employee.
MappedVillages(emp) ==
    UNION {Range(village_mappings[i].villages) :
             i \in {j \in DOMAIN village_mappings : village_mappings[j].employee = emp}}

\* C11: a call with a valid credential returns in data exactly the villages
\* of all the Village BDE Mapping documents of the caller's employee, and
\* answers 404 NO_VILLAGES_ASSIGNED when the employee has no mapping
\* (stated for stores whose mapped villages all exist).
C11_ReturnsAllMappedVillages ==
    (/\ villages_pc = "done"
     /\ villages_req.token_valid
     /\ MappedVillages(villages_req.employee) \subseteq VillageDocs)
    => IF \E i \in DOMAIN village_mappings :
             village_mappings[i].employee = villages_req.employee
       THEN /\ villages_resp.raised = ""
            /\ villages_resp.http_status_code = 200
            /\ villages_resp.code = "VILLAGES_RETRIEVED"
            /\ Range(villages_resp.data) = MappedVillages(villages_req.employee)
       ELSE /\ villages_resp.raised = ""
            /\ villages_resp.http_status_code = 404
            /\ villages_resp.code = "NO_VILLAGES_ASSIGNED"

====
